---- MODULE Spec2Model ----
(***************************************************************************)
(* Model of main.py of Joint-A-SNN: command-line parsing, the composite    *)
(* loss compute_loss, train, test and the epoch loop of the main block.    *)
(*                                                                         *)
(* Tensors are symbolic: an output of the network is named by the branch   *)
(* that produced it ("ann" or "snn"), its index in the returned list and   *)
(* the batch it was computed from.  A loss is the sequence of its weighted *)
(* terms.  Real-valued hyperparameters are integers in a fixed unit        *)
(* (learning rates in thousandths, loss coefficients in millionths).       *)
(***************************************************************************)
EXTENDS Integers, Sequences, FiniteSets

\* ---------------------------------------------------------------- bounds
MaxEpochs == 2        \* largest value given to --epochs
NumBatches == 2       \* len(train_loader)
TestTotal == 4        \* number of test images; divides 100, so 100*c/TestTotal is exact

\* ------------------------------------------------------ program constants
DefaultLr == 100      \* default of --lr: 0.1, in thousandths
SGDLr == 100          \* lr passed to torch.optim.SGD: 0.1, in thousandths
Unit == 1000000       \* the coefficient 1, in millionths
alpha == 100000       \* alpha = 0.1, in millionths
beta == 1             \* beta = 1e-6, in millionths
temperature == 3

LrValues == {DefaultLr, 10}     \* values of --lr tried: 0.1 (the default) and 0.01

None == "None"
NoAcc == -1           \* facc before the first test()

VARIABLES
    argv,         \* the command line: what was passed for each flag
    args,         \* the namespace parse_args() returned
    pc,           \* position of the script
    scaler,       \* "unset" before line 197, then None or "GradScaler"
    optimizer,    \* [built, lr, steps]: initial learning rate and number of step() calls
    scheduler,    \* [built, T_max, last_epoch]
    best_acc, best_epoch,
    epoch,        \* loop variable of the main loop (-1 before the first iteration)
    facc,         \* result of the last test(), NoAcc before
    i,            \* index of the current batch in train (-1 outside the loop)
    loss,         \* result of compute_loss for the current batch, <<>> otherwise
    grad,         \* batches whose gradients are accumulated in the parameters' .grad
    params,       \* the model parameters: the sequence of gradients applied by steps
    file,         \* res18.pth: [exists, params], the parameters torch.save wrote
    ops,          \* operations done on the current batch, in order
    processed,    \* per batch index: how often train processed it in this call
    phases,       \* phases of the current epoch begun so far, in order
    started,      \* epoch numbers for which train was called, in order
    completed,    \* number of loop iterations run to their end
    accs,         \* test accuracies of the completed epochs, in order
    endParams,    \* model parameters at the end of each completed epoch
    writes        \* 1-based numbers of the epochs whose end wrote res18.pth

vars == <<argv, args, pc, scaler, optimizer, scheduler, best_acc, best_epoch,
          epoch, facc, i, loss, grad, params, file, ops, processed, phases,
          started, completed, accs, endParams, writes>>

mainVars == <<scaler, optimizer, scheduler, best_acc, best_epoch, file>>
histVars == <<started, completed, accs, endParams, writes>>

\* ------------------------------------------------------------- arguments
\* parser.add_argument(...) and parse_args(): argv says, per flag, the value
\* passed (or the default when it was not passed); --amp is a switch.
parse_args(cmd) ==
    [epochs      |-> cmd.epochs,
     start_epoch |-> cmd.start_epoch,
     lr          |-> cmd.lr,
     amp         |-> ~cmd.amp]          \* action='store_false': default True, the switch stores False

CommandLines ==
    {c \in [epochs : 0..MaxEpochs, start_epoch : 0..MaxEpochs,
            lr : LrValues, amp : BOOLEAN] : c.start_epoch <= c.epochs}

\* ---------------------------------------------------------- compute_loss
\* ann_outs, snn_outs = model(input): eight outputs per branch, 0..3 the
\* logits of the four exits and 4..7 the features.
Out(net, k, input) == [net |-> net, idx |-> k, input |-> input, op |-> "raw", detached |-> FALSE]
Target(input) == [net |-> "target", idx |-> 0, input |-> input, op |-> "raw", detached |-> FALSE]

\* the teacher is used without detach()
detach_dropped(t) == t

detach(t) == [t EXCEPT !.detached = TRUE]

\* get_logits: softmax(output / temperature)
get_logits(output) == [output EXCEPT !.op = "softmaxT"]

\* criterion(output, target): one cross-entropy term
criterion(output, target) ==
    <<[kind |-> "ce", student |-> output, teacher |-> target, factor |-> 1]>>

\* kd_loss_function(output, target_output): one distillation term
kd_loss_function(output, target_output) ==
    <<[kind |-> "kd", student |-> output, teacher |-> target_output, factor |-> 1]>>

\* feature_loss_function(fea, target_fea): one feature-matching term
feature_loss_function(fea, target_fea) ==
    <<[kind |-> "feat", student |-> fea, teacher |-> target_fea, factor |-> 1]>>

\* terms * c
Times(terms, c) == [k \in 1..Len(terms) |-> [terms[k] EXCEPT !.factor = @ * c]]

\* coef * (sum of terms)
Weighted(coef, terms) == [k \in 1..Len(terms) |-> [coef |-> coef, term |-> terms[k]]]

compute_loss(input) ==
    LET ann_outs == [k \in 0..7 |-> Out("ann", k, input)]
        snn_outs == [k \in 0..7 |-> Out("snn", k, input)]
        target == Target(input)
        T2 == temperature * temperature
        loss0 == criterion(ann_outs[0], target) \o criterion(snn_outs[0], target)
        middle1_loss == criterion(ann_outs[1], target) \o criterion(snn_outs[1], target)
        middle2_loss == criterion(ann_outs[2], target) \o criterion(snn_outs[2], target)
        middle3_loss == criterion(ann_outs[3], target) \o criterion(snn_outs[3], target)
        logit4 == get_logits(ann_outs[0])
        loss1by4 == Times(kd_loss_function(ann_outs[1], detach(logit4)), T2)
        loss2by4 == Times(kd_loss_function(ann_outs[2], detach(logit4)), T2)
        loss3by4 == Times(kd_loss_function(ann_outs[3], detach(logit4)), T2)
        loss1by1 == Times(kd_loss_function(snn_outs[1], detach(get_logits(ann_outs[1]))), T2)
        loss2by2 == Times(kd_loss_function(snn_outs[2], detach(get_logits(ann_outs[2]))), T2)
        loss3by3 == Times(kd_loss_function(snn_outs[3], detach(get_logits(ann_outs[3]))), T2)
        loss4by4 == Times(kd_loss_function(snn_outs[0], detach(get_logits(ann_outs[0]))), T2)
        feature_loss_1 == feature_loss_function(snn_outs[4], detach(ann_outs[4]))
        feature_loss_2 == feature_loss_function(snn_outs[5], detach(ann_outs[5]))
        feature_loss_3 == feature_loss_function(snn_outs[6], detach(ann_outs[6]))
        feature_loss_4 == feature_loss_function(snn_outs[7], detach(ann_outs[7]))
    IN  Weighted(Unit - alpha, loss0 \o middle1_loss \o middle2_loss \o middle3_loss)
        \o Weighted(alpha, loss1by4 \o loss2by4 \o loss3by4 \o loss1by1 \o loss2by2
                           \o loss3by3 \o loss4by4)
        \o Weighted(beta, feature_loss_1 \o feature_loss_2 \o feature_loss_3 \o feature_loss_4)

\* ------------------------------------------------------------------ test
\* final_acc = 100 * correct / total, for correct of the total test images right
final_acc(correct, total) == (100 * correct) \div total

\* ------------------------------------------------------------ main block
Init ==
    /\ argv \in CommandLines
    /\ args = parse_args(argv)
    /\ pc = "main"
    /\ scaler = "unset"
    /\ optimizer = [built |-> FALSE, lr |-> 0, steps |-> 0]
    /\ scheduler = [built |-> FALSE, T_max |-> 0, last_epoch |-> 0]
    /\ best_acc = 0
    /\ best_epoch = 0
    /\ epoch = -1
    /\ facc = NoAcc
    /\ i = -1
    /\ loss = <<>>
    /\ grad = {}
    /\ params = <<>>
    /\ file = [exists |-> FALSE, params |-> <<>>]
    /\ ops = <<>>
    /\ processed = [b \in 0..(NumBatches - 1) |-> 0]
    /\ phases = <<>>
    /\ started = <<>>
    /\ completed = 0
    /\ accs = <<>>
    /\ endParams = <<>>
    /\ writes = {}

\* lines 185-203: loaders, model, scaler, optimizer, scheduler, best_acc, best_epoch
Setup ==
    /\ pc = "main"
    /\ scaler' = IF args.amp THEN "GradScaler" ELSE None
    /\ optimizer' = [built |-> TRUE, lr |-> SGDLr, steps |-> 0]
    /\ scheduler' = [built |-> TRUE, T_max |-> args.epochs, last_epoch |-> 0]
    /\ best_acc' = 0
    /\ best_epoch' = 0
    /\ pc' = "loop"
    /\ UNCHANGED <<argv, args, epoch, facc, i, loss, grad, params, file, ops,
                   processed, phases, histVars>>

\* line 204, for epoch in range(args.epochs): the next value 0, 1, ..., or the
\* end of the loop
LoopNext ==
    /\ pc = "loop"
    /\ epoch + 1 < args.epochs
    /\ epoch' = epoch + 1
    /\ phases' = <<>>
    /\ pc' = "train"
    /\ UNCHANGED <<argv, args, mainVars, facc, i, loss, grad, params, ops,
                   processed, histVars>>

LoopEnd ==
    /\ pc = "loop"
    /\ epoch + 1 >= args.epochs
    /\ pc' = "done"
    /\ UNCHANGED <<argv, args, mainVars, epoch, facc, i, loss, grad, params, ops,
                   processed, phases, histVars>>

\* ----------------------------------------------------------------- train
\* Lines 132-138, the call of train on line 206 up to the progress bar.
\* Line 138 as written is not a well-formed statement: the call of tqdm is
\* never closed, and its description formats i, which only the loop on line
\* 139 binds.  Its outcome is a choice: the statement raises and the run ends
\* (TrainRaise), or the progress bar over train_loader is obtained (TrainEnter).
TrainEnter ==
    /\ pc = "train"
    /\ phases' = Append(phases, "train")
    /\ started' = Append(started, epoch)
    /\ processed' = [b \in 0..(NumBatches - 1) |-> 0]
    /\ i' = -1
    /\ pc' = "for"
    /\ UNCHANGED <<argv, args, mainVars, epoch, facc, loss, grad, params, ops,
                   completed, accs, endParams, writes>>

TrainRaise ==
    /\ pc = "train"
    /\ phases' = Append(phases, "train")
    /\ started' = Append(started, epoch)
    /\ processed' = [b \in 0..(NumBatches - 1) |-> 0]
    /\ pc' = "raised"
    /\ UNCHANGED <<argv, args, mainVars, epoch, facc, i, loss, grad, params, ops,
                   completed, accs, endParams, writes>>

\* line 139, for i, (images, labels) in enumerate(progress_bar): the next batch
ForNext ==
    /\ pc = "for"
    /\ i + 1 < NumBatches
    /\ i' = i + 1
    /\ ops' = <<>>
    /\ loss' = <<>>
    /\ pc' = "zero_grad"
    /\ UNCHANGED <<argv, args, mainVars, epoch, facc, grad, params, processed,
                   phases, histVars>>

\* lines 161-164 and 206-208: the loader is exhausted, train returns
TrainReturn ==
    /\ pc = "for"
    /\ i + 1 >= NumBatches
    /\ i' = -1
    /\ loss' = <<>>
    /\ pc' = "sched"
    /\ UNCHANGED <<argv, args, mainVars, epoch, facc, grad, params, ops,
                   processed, phases, histVars>>

\* lines 140-142: optimizer.zero_grad()
ZeroGrad ==
    /\ pc = "zero_grad"
    /\ grad' = {}
    /\ ops' = Append(ops, "zero_grad")
    /\ pc' = "forward"
    /\ UNCHANGED <<argv, args, mainVars, epoch, facc, i, loss, params,
                   processed, phases, histVars>>

\* lines 144-147 and 151-152: loss = compute_loss(model, images, labels),
\* under autocast when args.amp
Forward ==
    /\ pc = "forward"
    /\ loss' = compute_loss(<<epoch, i>>)
    /\ ops' = Append(ops, IF args.amp THEN "autocast_forward" ELSE "forward")
    /\ pc' = "backward"
    /\ UNCHANGED <<argv, args, mainVars, epoch, facc, i, grad, params,
                   processed, phases, histVars>>

\* the batches the terms of a loss were computed from
InputsOf(l) == {l[k].term.student.input : k \in 1..Len(l)}

\* line 148, scaler.scale(loss).backward(), or line 153, loss.backward():
\* the gradients of the loss are added to .grad; scaler.scale on None raises
Backward ==
    /\ pc = "backward"
    /\ IF args.amp /\ scaler # "GradScaler"
       THEN /\ pc' = "raised"
            /\ UNCHANGED <<grad, ops>>
       ELSE /\ grad' = grad \cup InputsOf(loss)
            /\ ops' = Append(ops, IF args.amp THEN "scale_backward" ELSE "backward")
            /\ pc' = "step"
    /\ UNCHANGED <<argv, args, mainVars, epoch, facc, i, loss, params,
                   processed, phases, histVars>>

\* line 149, scaler.step(optimizer), or line 154, optimizer.step(): the
\* accumulated gradients are applied to the parameters
Step ==
    /\ pc = "step"
    /\ params' = Append(params, grad)
    /\ optimizer' = [optimizer EXCEPT !.steps = @ + 1]
    /\ ops' = Append(ops, IF args.amp THEN "scaler_step" ELSE "step")
    /\ pc' = IF args.amp THEN "update" ELSE "batch_end"
    /\ UNCHANGED <<argv, args, scaler, scheduler, best_acc, best_epoch, file,
                   epoch, facc, i, loss, grad, processed, phases, histVars>>

\* line 150: scaler.update()
Update ==
    /\ pc = "update"
    /\ ops' = Append(ops, "scaler_update")
    /\ pc' = "batch_end"
    /\ UNCHANGED <<argv, args, mainVars, epoch, facc, i, loss, grad, params,
                   processed, phases, histVars>>

\* lines 156-160: running_loss, total, progress bar
BatchEnd ==
    /\ pc = "batch_end"
    /\ processed' = [processed EXCEPT ![i] = @ + 1]
    /\ pc' = "for"
    /\ UNCHANGED <<argv, args, mainVars, epoch, facc, i, loss, grad, params, ops,
                   phases, histVars>>

\* ------------------------------------------------- rest of the loop body
\* line 209: scheduler.step()
SchedulerStep ==
    /\ pc = "sched"
    /\ scheduler' = [scheduler EXCEPT !.last_epoch = @ + 1]
    /\ phases' = Append(phases, "scheduler")
    /\ pc' = "test"
    /\ UNCHANGED <<argv, args, scaler, optimizer, best_acc, best_epoch, file,
                   epoch, facc, i, loss, grad, params, ops, processed, histVars>>

\* lines 210-211: facc = test(model, test_loader, device); the model gets
\* some number of the test images right
Test ==
    /\ pc = "test"
    /\ \E correct \in 0..TestTotal : facc' = final_acc(correct, TestTotal)
    /\ phases' = Append(phases, "test")
    /\ pc' = "checkpoint"
    /\ UNCHANGED <<argv, args, mainVars, epoch, i, loss, grad, params, ops,
                   processed, histVars>>

\* the checkpoint is also written when the accuracy only equals the best
improved_or_equal(best, acc) == best <= acc

\* line 213: the condition of the checkpoint
improved(best, acc) == best < acc

\* the loop variable itself is recorded, one less than the epoch's number
epoch_index(e) == e

\* line 215: the epoch number recorded with the best accuracy
epoch_number(e) == e + 1

\* lines 213-217: the checkpoint decision, the end of the loop body
Checkpoint ==
    /\ pc = "checkpoint"
    /\ IF improved(best_acc, facc)
       THEN /\ best_acc' = facc
            /\ best_epoch' = epoch_number(epoch)
            /\ file' = [exists |-> TRUE, params |-> params]
            /\ writes' = writes \cup {epoch + 1}
       ELSE UNCHANGED <<best_acc, best_epoch, file, writes>>
    /\ phases' = Append(phases, "checkpoint")
    /\ completed' = completed + 1
    /\ accs' = Append(accs, facc)
    /\ endParams' = Append(endParams, params)
    /\ pc' = "loop"
    /\ UNCHANGED <<argv, args, scaler, optimizer, scheduler, epoch, facc, i,
                   loss, grad, params, ops, processed, started>>

Next ==
    \/ Setup \/ LoopNext \/ LoopEnd
    \/ TrainEnter \/ TrainRaise \/ ForNext \/ TrainReturn
    \/ ZeroGrad \/ Forward \/ Backward \/ Step \/ Update \/ BatchEnd
    \/ SchedulerStep \/ Test \/ Checkpoint

Spec == Init /\ [][Next]_vars

\* ------------------------------------------------------------ properties
MaxOf(S) == CHOOSE x \in S : \A y \in S : y <= x
MinOf(S) == CHOOSE x \in S : \A y \in S : x <= y
IsPrefix(s, t) == Len(s) <= Len(t) /\ \A k \in 1..Len(s) : s[k] = t[k]

\* best test accuracy of the epochs before epoch e (1-based), 0 when there is none
BestBefore(e) == MaxOf({0} \cup {accs[k] : k \in 1..(e - 1)})

\* C1: res18.pth is written at the end of an epoch exactly when that epoch's
\* test accuracy is strictly greater than the best accuracy of all earlier
\* epochs (0 at the start); an epoch that only equals or stays below the best
\* writes nothing, and the file holds the model parameters as they were at
\* the end of the epoch that wrote it.
C1_CheckpointIffImproved ==
    /\ \A e \in 1..completed : (e \in writes) <=> (accs[e] > BestBefore(e))
    /\ writes \subseteq 1..completed
    /\ file.exists <=> writes # {}
    /\ file.exists => file.params = endParams[MaxOf(writes)]

C1_Witness ==
    /\ completed = 2
    /\ accs[1] > 0
    /\ accs[2] = accs[1]
    /\ writes = {1}
    /\ file.exists
    /\ file.params = endParams[1]
    /\ endParams[2] # endParams[1]

\* C2: the optimizer built in the main block starts with the learning rate
\* given to --lr.
C2_OptimizerUsesLrFlag ==
    optimizer.built => optimizer.lr = args.lr

\* C3: mixed precision is used exactly when --amp is passed: then a
\* GradScaler is created and every batch takes the autocast/GradScaler
\* branch; otherwise no GradScaler is created and every batch takes the
\* plain backward/step branch.
C3_AmpIffFlagPassed ==
    /\ scaler # "unset" => (scaler = "GradScaler" <=> argv.amp)
    /\ \A k \in 1..Len(ops) :
          /\ ops[k] \in {"autocast_forward", "scale_backward", "scaler_step", "scaler_update"}
                => argv.amp
          /\ ops[k] \in {"forward", "backward", "step"} => ~argv.amp

PhaseOrder == <<"train", "scheduler", "test", "checkpoint">>

\* C4: for args.epochs = N >= 0 the main loop ends after exactly N epochs,
\* each epoch runs train, scheduler.step(), test and the checkpoint decision
\* in this order, once each, no phase of the next epoch begins before the
\* checkpoint decision of the current one, and with N = 0 nothing is
\* trained, evaluated or written.
C4_LoopRunsNEpochsInOrder ==
    /\ pc \in {"done", "raised"} => completed = args.epochs
    /\ IsPrefix(phases, PhaseOrder)
    /\ pc = "loop" /\ epoch >= 0 => phases = PhaseOrder
    /\ Len(started) \in {completed, completed + 1}
    /\ scheduler.last_epoch \in {completed, completed + 1}
    /\ args.epochs = 0 => started = <<>> /\ facc = NoAcc /\ ~file.exists

IsC(w) == w.coef = Unit - alpha
IsK(w) == w.coef = alpha
IsF(w) == w.coef = beta
Pairing(ws) ==
    {<<ws[k].term.student.net, ws[k].term.student.idx,
       ws[k].term.teacher.net, ws[k].term.teacher.idx>> : k \in 1..Len(ws)}

LossShape(l) ==
    LET C == SelectSeq(l, IsC)
        K == SelectSeq(l, IsK)
        F == SelectSeq(l, IsF)
    IN  /\ Len(l) = Len(C) + Len(K) + Len(F)
        /\ Len(C) = 8
        /\ \A k \in 1..Len(C) : C[k].term.kind = "ce" /\ C[k].term.factor = 1
        /\ Pairing(C) = {<<n, x, "target", 0>> : n \in {"ann", "snn"}, x \in 0..3}
        /\ Len(K) = 7
        /\ \A k \in 1..Len(K) :
              /\ K[k].term.kind = "kd"
              /\ K[k].term.factor = temperature * temperature
              /\ K[k].term.teacher.op = "softmaxT"
        /\ Pairing(K) = {<<"ann", x, "ann", 0>> : x \in 1..3}
                        \cup {<<"snn", x, "ann", x>> : x \in 0..3}
        /\ Len(F) = 4
        /\ \A k \in 1..Len(F) : F[k].term.kind = "feat" /\ F[k].term.factor = 1
        /\ Pairing(F) = {<<"snn", x, "ann", x>> : x \in 4..7}
        /\ \A k \in 1..Len(l) :
              l[k].term.kind \in {"kd", "feat"}
                 => l[k].term.teacher.net = "ann" /\ l[k].term.teacher.detached

\* C5: compute_loss returns (1 - alpha) * C + alpha * K + beta * F with C the
\* 8 classification terms (ANN and SNN output of each exit 0..3 against the
\* target), K the 7 distillation terms, each times temperature^2 (ANN exits
\* 1..3 taught by ANN exit 0, SNN exit x taught by ANN exit x), F the 4
\* feature terms (SNN feature x taught by ANN feature x, x = 4..7); every
\* teacher of a distillation or feature term is a detached ANN output.
C5_LossComposition ==
    loss # <<>> => LossShape(loss)

C5_Witness ==
    /\ pc = "backward"
    /\ Len(loss) = 19
    /\ epoch = 1
    /\ i = 1

\* C6: a run with --start_epoch s begins its epoch loop at epoch s and runs
\* the epochs s, s+1, ..., args.epochs-1 only.
C6_LoopStartsAtStartEpoch ==
    \A k \in 1..Len(started) : started[k] = args.start_epoch + k - 1

AmpOps == <<"zero_grad", "autocast_forward", "scale_backward", "scaler_step", "scaler_update">>
PlainOps == <<"zero_grad", "forward", "backward", "step">>

\* C7: best_acc is the maximum of 0 and the test accuracies of the epochs
\* completed so far, never decreases and lies in [0, 100]; best_epoch is the
\* 1-based number of the first epoch that attained best_acc (0 while no
\* accuracy was above 0); the checkpoint on disk, if any, is the model of
\* epoch best_epoch, and there is none while every accuracy has been 0.
C7_State ==
    /\ Len(accs) = completed
    /\ best_acc = MaxOf({0} \cup {accs[k] : k \in 1..completed})
    /\ best_acc \in 0..100
    /\ best_epoch = IF \A k \in 1..completed : accs[k] = 0
                    THEN 0
                    ELSE MinOf({k \in 1..completed : accs[k] = best_acc})
    /\ file.exists <=> \E k \in 1..completed : accs[k] > 0
    /\ file.exists => file.params = endParams[best_epoch]

C7_BestAccIsRunningMax ==
    [](C7_State) /\ [][best_acc' >= best_acc]_vars

C7_Witness ==
    /\ completed = 2
    /\ accs[1] > 0
    /\ accs[2] > accs[1]
    /\ best_epoch = 2
    /\ best_acc = accs[2]
    /\ file.params = endParams[2]

\* the call of train of the current epoch is over (it returned or raised)
TrainOver == phases = <<"train">> /\ pc \in {"sched", "raised"}

\* C8: train processes every batch of the loader exactly once per epoch; per
\* batch the order is zero_grad, forward, backward, one optimizer step (with
\* AMP: scale(loss).backward(), scaler.step(optimizer), scaler.update()); the
\* scaler is not None in the AMP branch, and the step of a batch applies the
\* gradients of that batch only.
C8_TrainProcessesEveryBatchOnce ==
    /\ TrainOver => \A b \in 0..(NumBatches - 1) : processed[b] = 1
    /\ IsPrefix(ops, IF args.amp THEN AmpOps ELSE PlainOps)
    /\ pc = "batch_end" => ops = (IF args.amp THEN AmpOps ELSE PlainOps)
    /\ pc \in {"backward", "step", "update"} /\ args.amp => scaler = "GradScaler"
    /\ pc = "step" => grad = {<<epoch, i>>}

====
